---- MODULE Spec2Model ----
(***************************************************************************)
(* Model of src/main.py (VideoCompressor): the batch engine that scans a   *)
(* root directory for videos, runs compress_one for each of them on a      *)
(* ThreadPoolExecutor, and folds the outcomes into totals in main().       *)
(*                                                                         *)
(* A file name is the record [base, suf, ext]: the text                    *)
(*     base ++ "_h265" repeated suf times ++ ext                           *)
(* so that os.path.splitext, the "_h265.mp4" suffix appended by            *)
(* compress_one and the two endswith() filters are computed, not assumed.  *)
(* A path is [dir, name]; dir is "root" (the scanned root), "sub" (a       *)
(* subdirectory of it) or "out" (root/output_wm).                          *)
(***************************************************************************)
EXTENDS Integers, Sequences, FiniteSets, TLC

VARIABLES
    fs,               \* the file system: path -> [size, dur]
    stop_requested,   \* main.py:25, the global set by handle_sigint
    mainpc,           \* where main() is: start, loop, broke, raising, returned, raised
    workers,          \* main.py:231-239, the pool size
    existing_outputs, \* main.py:250-253
    videos,           \* main.py:262, the scan result, in scan order
    st,               \* per unit: where its compress_one call is
    result,           \* per unit: what its future holds
    proc,             \* per unit: the encoder subprocess p of compress_one
    src_size,         \* per unit: the local src_size of compress_one
    failure,          \* per unit: the exception caught and logged at main.py:163-164
    probed,           \* units for which ffprobe was invoked
    collected,        \* units whose future.result() main() has folded in
    completed,        \* progress.tasks[total_task].completed
    total_src,        \* main.py:290
    total_dst,        \* main.py:290
    fs0,              \* the file system as it was when main() was invoked
    run,              \* how many times main() was invoked on this root
    prevAllDone,      \* whether every unit of the previous run returned "done"
    task,             \* one unit's progress task: duration, values passed to update
    quality           \* the inputs and the result of the choice of crf

vars == <<fs, stop_requested, mainpc, workers, existing_outputs, videos, st,
          result, proc, src_size, failure, probed, collected, completed,
          total_src, total_dst, fs0, run, prevAllDone,
                   task, quality>>

(* ------------------------------ bounds --------------------------------- *)

\* The largest pool size tried.
MaxWorkers == 2

\* The largest number of files the root holds when the program starts.
MaxFiles == 3

\* The largest size an encoder writes.
MaxSize == 1

\* How many times main() is run on the same root.
MaxRuns == 2

\* The longest duration, in seconds, of the unit whose progress is followed.
MaxDur == 2

\* The largest out_time_ms value an encoder prints, in seconds.
MaxSecs == 3

\* How many out_time_ms lines of one encoder are followed.
MaxLines == 3

(* ------------------------------ names ---------------------------------- *)

\* main.py:22
VIDEO_EXTS == {".mp4", ".mov", ".mkv", ".avi", ".flv", ".webm"}

\* str.lower() on an extension.
Lower(ext) ==
    CASE ext = ".MP4" -> ".mp4"
      [] ext = ".MOV" -> ".mov"
      [] OTHER -> ext

Name(b, s, e) == [base |-> b, suf |-> s, ext |-> e]

Path(d, n) == [dir |-> d, name |-> n]

\* main.py:175, f.lower().endswith(VIDEO_EXTS)
IsVideo(n) == Lower(n.ext) \in VIDEO_EXTS

\* main.py:252, f.lower().endswith("_h265.mp4")
IsH265(n) == Lower(n.ext) = ".mp4" /\ n.suf >= 1

\* main.py:109-111, out_name of a source path: basename, splitext, + "_h265.mp4"
OutName(p) == Name(p.name.base, p.name.suf + 1, ".mp4")

\* main.py:112, os.path.join(out_dir, out_name); out_dir is root/output_wm (main.py:247)
OutPath(p) == Path("out", OutName(p))

(* --------------------------- the file system --------------------------- *)

File(p, sz, d) == [path |-> p, size |-> sz, dur |-> d]

\* The files a root may hold at program start, each with its size in bytes and
\* the duration ffprobe reports for it: two sources with the same base name,
\* an upper-case extension, a zero duration, an output of an earlier run and
\* a file that is no video.
Candidates ==
    { File(Path("root", Name("a", 0, ".mp4")), 2, 3),
      File(Path("root", Name("b", 0, ".MOV")), 4, 0),
      File(Path("sub",  Name("a", 0, ".mov")), 8, 3),
      File(Path("out",  Name("a", 1, ".mp4")), 1, 3),
      File(Path("root", Name("n", 0, ".txt")), 1, 0) }

\* The file system holding the files of F.
FsOf(F) == [p \in {f.path : f \in F} |->
               LET f == CHOOSE g \in F : g.path = p
               IN  [size |-> f.size, dur |-> f.dur]]

Exists(p) == p \in DOMAIN fs

\* The position of a path in a directory walk: os.walk is top-down, so the
\* root's own files come before those of its subdirectories.
DirRank(d) == CASE d = "root" -> 0 [] d = "out" -> 1 [] OTHER -> 2

BaseRank(b) == CASE b = "a" -> 0 [] b = "b" -> 1 [] b = "c" -> 2 [] OTHER -> 3

ExtRank(e) == CASE Lower(e) = ".mp4" -> 0 [] Lower(e) = ".mov" -> 1 [] OTHER -> 2

WalkKey(p) ==
    ((DirRank(p.dir) * 4 + BaseRank(p.name.base)) * 8 + p.name.suf) * 4
        + ExtRank(p.name.ext)

RECURSIVE InWalkOrder(_)
InWalkOrder(S) ==
    IF S = {} THEN <<>>
    ELSE LET p == CHOOSE x \in S : \A y \in S : WalkKey(x) <= WalkKey(y)
         IN  <<p>> \o InWalkOrder(S \ {p})

\* main.py:171-177: every file under root, output_wm included, whose
\* lower-cased name ends with a video extension.
scan_videos == InWalkOrder({p \in DOMAIN fs : IsVideo(p.name)})

\* main.py:250-253
ListExistingOutputs ==
    {p.name : p \in {q \in DOMAIN fs : q.dir = "out" /\ IsH265(q.name)}}

(* ------------------------------ outcomes ------------------------------- *)

\* What a future holds: nothing yet, a value returned by compress_one
\* (None, ("skipped", 0, 0), ("done", src, dst)) or a raised exception.
Pending == [kind |-> "pending", src |-> 0, dst |-> 0]

None == [kind |-> "none", src |-> 0, dst |-> 0]

Skipped == [kind |-> "skipped", src |-> 0, dst |-> 0]

Done(s, d) == [kind |-> "done", src |-> s, dst |-> d]

Raised == [kind |-> "raised", src |-> 0, dst |-> 0]

Units == 1..Len(videos)

\* The units a pool thread is busy with: taken off the queue and not finished.
Running == {u \in Units : st[u] \in {"taken", "probed", "reading"}}

AllFinished == \A u \in Units : st[u] = "finished"

(* ------------------------------- Init ---------------------------------- *)

\* No progress task is followed.
NoTask == [duration |-> 0, reports |-> <<>>, error |-> "none"]

\* No choice of crf is followed.
NoQuality == [w |-> 0, h |-> 0, nvenc |-> FALSE, crf_input |-> "",
              stage |-> "none", crf |-> 0]

InitRest ==
    /\ stop_requested = FALSE
    /\ mainpc = "start"
    /\ existing_outputs = {}
    /\ videos = <<>>
    /\ st = <<>>
    /\ result = <<>>
    /\ proc = <<>>
    /\ src_size = <<>>
    /\ failure = <<>>
    /\ probed = {}
    /\ collected = {}
    /\ completed = 0
    /\ total_src = 0
    /\ total_dst = 0
    /\ run = 1
    /\ prevAllDone = FALSE

Init ==
    /\ \E F \in SUBSET Candidates :
          /\ Cardinality(F) \in 1..MaxFiles
          /\ fs = FsOf(F)
    /\ fs0 = fs
    /\ workers \in 1..MaxWorkers
    /\ InitRest
    /\ task = NoTask
    /\ quality = NoQuality

(* ---------------------------- handle_sigint --------------------------- *)

\* main.py:30-36. The flag is only ever set; a second Ctrl+C changes nothing.
handle_sigint ==
    /\ mainpc \notin {"returned", "raised"}
    /\ stop_requested' = TRUE
    /\ UNCHANGED <<fs, mainpc, workers, existing_outputs, videos, st, result,
                   proc, src_size, failure, probed, collected, completed, total_src,
                   total_dst, fs0, run, prevAllDone,
                   task, quality>>

(* ------------------------------ main, I -------------------------------- *)

\* main.py:217-297: the prompts, makedirs, the listing of output_wm, the scan
\* and the submission of one compress_one call per video. With no video
\* main() returns at once (main.py:263-265).
MainStart ==
    /\ mainpc = "start"
    /\ existing_outputs' = ListExistingOutputs
    /\ videos' = scan_videos
    /\ mainpc' = IF scan_videos = <<>> THEN "returned" ELSE "loop"
    /\ st' = [u \in 1..Len(scan_videos) |-> "queued"]
    /\ result' = [u \in 1..Len(scan_videos) |-> Pending]
    /\ proc' = [u \in 1..Len(scan_videos) |-> "none"]
    /\ src_size' = [u \in 1..Len(scan_videos) |-> 0]
    /\ failure' = [u \in 1..Len(scan_videos) |-> ""]
    /\ UNCHANGED <<fs, stop_requested, workers, probed, collected, completed,
                   total_src, total_dst, fs0, run, prevAllDone,
                   task, quality>>

(* ----------------------------- compress_one ---------------------------- *)

\* compress_one without its entry check.
EntryCheckMissing == FALSE

\* main.py:106, the check made when a worker begins a unit.
EntryCheck == stop_requested

\* The skip check made on the source's name instead of the output's.
SkipCheckByName(p) == p.name \in existing_outputs

\* main.py:115
SkipCheck(p) == OutName(p) \in existing_outputs

\* The future of unit u is set to r.
Finish(u, r) ==
    /\ st' = [st EXCEPT ![u] = "finished"]
    /\ result' = [result EXCEPT ![u] = r]

\* One pool thread for every video, whatever the user asked for.
PoolSizePerVideo == Len(videos)

\* main.py:293, ThreadPoolExecutor(max_workers=workers)
PoolSize == workers

\* A pool thread is free and u is a queued work item, in no particular order.
CanStartAnyOrder(u) ==
    /\ u \in Units
    /\ mainpc \in {"loop", "broke", "raising"}
    /\ st[u] = "queued"
    /\ Cardinality(Running) < PoolSize

\* A pool thread is free and u is the oldest queued work item
\* (ThreadPoolExecutor hands out its queue first in, first out, and the
\* futures are submitted in the order of videos, main.py:294-297).
CanStart(u) ==
    /\ u \in Units
    /\ mainpc \in {"loop", "broke", "raising"}
    /\ st[u] = "queued"
    /\ \A v \in Units : v < u => st[v] # "queued"
    /\ Cardinality(Running) < PoolSize

\* main.py:293-297: a free pool thread takes work item u off the queue; it
\* has not yet called compress_one, and another thread may run meanwhile.
Take(u) ==
    /\ CanStart(u)
    /\ st' = [st EXCEPT ![u] = "taken"]
    /\ UNCHANGED <<fs, stop_requested, mainpc, workers, existing_outputs,
                   videos, result, proc, src_size, failure, probed, collected,
                   completed, total_src, total_dst, fs0, run, prevAllDone,
                   task, quality>>

\* main.py:106-125: the entry check, the skip check, then getsize and the two
\* ffprobe calls, which are outside the try block: when one of them raises
\* (ok = FALSE) the exception is stored in the future.
Start(u) ==
    /\ u \in Units
    /\ st[u] = "taken"
    /\ IF EntryCheck
       THEN Finish(u, None) /\ UNCHANGED <<src_size, probed>>
       ELSE IF SkipCheck(videos[u])
       THEN Finish(u, Skipped) /\ UNCHANGED <<src_size, probed>>
       ELSE /\ probed' = probed \cup {u}
            /\ \E ok \in BOOLEAN :
                 IF ok /\ Exists(videos[u])
                 THEN /\ st' = [st EXCEPT ![u] = "probed"]
                      /\ src_size' = [src_size EXCEPT ![u] = fs[videos[u]].size]
                      /\ UNCHANGED result
                 ELSE Finish(u, Raised) /\ UNCHANGED src_size
    /\ UNCHANGED <<fs, stop_requested, mainpc, workers, existing_outputs,
                   videos, proc, failure, collected, completed, total_src,
                   total_dst, fs0, run, prevAllDone,
                   task, quality>>

\* main.py:143-149: Popen. A failure to launch is caught at main.py:163.
Launch(u) ==
    /\ u \in Units
    /\ st[u] = "probed"
    /\ \E ok \in BOOLEAN :
         IF ok
         THEN /\ st' = [st EXCEPT ![u] = "reading"]
              /\ proc' = [proc EXCEPT ![u] = "running"]
              /\ UNCHANGED <<result, failure>>
         ELSE /\ Finish(u, None)
              /\ failure' = [failure EXCEPT ![u] = "popen"]
              /\ UNCHANGED proc
    /\ UNCHANGED <<fs, stop_requested, mainpc, workers, existing_outputs,
                   videos, src_size, probed, collected, completed, total_src,
                   total_dst, fs0, run, prevAllDone,
                   task, quality>>

\* The encoder of unit u (ffmpeg -y ... out_path, main.py:132-141) writes its
\* output file; an encoder whose worker has returned without terminating it
\* keeps running.
EncWrite(u) ==
    /\ u \in Units
    /\ proc[u] = "running"
    /\ \E d \in 1..MaxSize :
         fs' = (OutPath(videos[u]) :> [size |-> d, dur |-> fs[videos[u]].dur])
                  @@ fs
    /\ UNCHANGED <<stop_requested, mainpc, workers, existing_outputs, videos,
                   st, result, proc, src_size, failure, probed, collected,
                   completed, total_src, total_dst, fs0, run, prevAllDone,
                   task, quality>>

\* The kinds of line an encoder prints on its progress pipe: a line that is
\* not out_time_ms, out_time_ms=<integer>, and out_time_ms=N/A.
LineKinds == {"other", "time", "bad"}

\* main.py:155-157: int() of the value raises on a non-integer, and
\* t / duration raises when the probed duration is 0.
LineRaises(u, line) ==
    \/ line = "bad"
    \/ line = "time" /\ fs[videos[u]].dur = 0

\* The exception a raising line raises: ValueError from int(), or
\* ZeroDivisionError from t / duration.
LineError(u, line) == IF line = "bad" THEN "int" ELSE "zerodiv"

\* A worker that never looks at the flag while reading.
LineCheckMissing == FALSE

\* main.py:152, the check made for every line read.
LineCheck == stop_requested

\* main.py:151-157, one iteration of the loop over p.stdout: the check of the
\* flag, then the line. An exception is caught at main.py:163 and the worker
\* returns None, leaving the encoder running.
ReadLine(u) ==
    /\ u \in Units
    /\ st[u] = "reading"
    /\ IF LineCheck
       THEN /\ proc' = [proc EXCEPT ![u] = "terminated"]
            /\ Finish(u, None)
            /\ UNCHANGED failure
       ELSE \E line \in LineKinds :
              IF LineRaises(u, line)
              THEN /\ Finish(u, None)
                   /\ failure' = [failure EXCEPT ![u] = LineError(u, line)]
                   /\ UNCHANGED proc
              ELSE UNCHANGED <<st, result, proc, failure>>
    /\ UNCHANGED <<fs, stop_requested, mainpc, workers, existing_outputs,
                   videos, src_size, probed, collected, completed, total_src,
                   total_dst, fs0, run, prevAllDone,
                   task, quality>>

\* main.py:161-165: the outcome once the encoder has exited with `code`. The
\* exit status is not looked at; getsize(out_path) raises when there is no
\* output file, and that is caught at main.py:163.
ExitOutcome(u, code) ==
    IF Exists(OutPath(videos[u]))
    THEN Done(src_size[u], fs[OutPath(videos[u])].size)
    ELSE None

\* main.py:151, 159-162: the encoder exits with status `code`, the loop over
\* p.stdout ends, p.wait() returns and the output file is stat-ed.
Exit(u) ==
    /\ u \in Units
    /\ st[u] = "reading"
    /\ \E code \in {0, 1} :
         /\ proc' = [proc EXCEPT ![u] = IF code = 0 THEN "exit0" ELSE "exit1"]
         /\ Finish(u, ExitOutcome(u, code))
         /\ failure' = [failure EXCEPT ![u] =
                          IF ExitOutcome(u, code) = None THEN "stat" ELSE ""]
    /\ UNCHANGED <<fs, stop_requested, mainpc, workers, existing_outputs,
                   videos, src_size, probed, collected, completed, total_src,
                   total_dst, fs0, run, prevAllDone,
                   task, quality>>

(* ------------------------------ main, II ------------------------------- *)

\* The totals assigned instead of added to.
FoldOverwrite(total, r, amount) == IF r.kind = "done" THEN amount ELSE total

\* main.py:311-313: what an outcome adds to a total.
Fold(total, r, amount) == IF r.kind = "done" THEN total + amount ELSE total

\* main.py:299-313, one iteration of the loop over as_completed(futures) for
\* a finished future: break when the flag is set; future.result() re-raises
\* what compress_one raised; otherwise the outcome is folded in.
Collect(u) ==
    /\ mainpc = "loop"
    /\ u \in Units \ collected
    /\ st[u] = "finished"
    /\ IF stop_requested
       THEN /\ mainpc' = "broke"
            /\ UNCHANGED <<collected, completed, total_src, total_dst>>
       ELSE IF result[u].kind = "raised"
       THEN /\ mainpc' = "raising"
            /\ UNCHANGED <<collected, completed, total_src, total_dst>>
       ELSE /\ collected' = collected \cup {u}
            /\ completed' = completed + 1
            /\ total_src' = Fold(total_src, result[u], result[u].src)
            /\ total_dst' = Fold(total_dst, result[u], result[u].dst)
            /\ UNCHANGED mainpc
    /\ UNCHANGED <<fs, stop_requested, workers, existing_outputs, videos, st,
                   result, proc, src_size, failure, probed, fs0, run, prevAllDone,
                   task, quality>>

\* main.py:299, 293: as_completed is exhausted once every future was yielded;
\* the pool's shutdown then has nothing to wait for.
LoopEnd ==
    /\ mainpc = "loop"
    /\ collected = Units
    /\ mainpc' = "returned"
    /\ UNCHANGED <<fs, stop_requested, workers, existing_outputs, videos, st,
                   result, proc, src_size, failure, probed, collected, completed,
                   total_src, total_dst, fs0, run, prevAllDone,
                   task, quality>>

\* main.py:293: leaving the with block after a break or an exception waits for
\* every submitted call (shutdown(wait=True)); then main() returns, or the
\* exception leaves main().
PoolExit ==
    /\ mainpc \in {"broke", "raising"}
    /\ AllFinished
    /\ mainpc' = IF mainpc = "broke" THEN "returned" ELSE "raised"
    /\ UNCHANGED <<fs, stop_requested, workers, existing_outputs, videos, st,
                   result, proc, src_size, failure, probed, collected, completed,
                   total_src, total_dst, fs0, run, prevAllDone,
                   task, quality>>

Next ==
    \/ handle_sigint
    \/ MainStart
    \/ \E u \in Units : Take(u)
    \/ \E u \in Units : Start(u)
    \/ \E u \in Units : Launch(u)
    \/ \E u \in Units : EncWrite(u)
    \/ \E u \in Units : ReadLine(u)
    \/ \E u \in Units : Exit(u)
    \/ \E u \in Units : Collect(u)
    \/ LoopEnd
    \/ PoolExit

Spec == Init /\ [][Next]_vars

(* ------------------------------ re-running ----------------------------- *)

\* Every unit of the run that just ended returned ("done", ...) and main()
\* returned.
AllDone ==
    /\ mainpc = "returned"
    /\ Units # {}
    /\ \A u \in Units : result[u].kind = "done"

\* The program is started again on the same root, once the previous process
\* and its encoders are gone: module initialisation (main.py:25) and then
\* main() on the file system the earlier run left behind.
Rerun ==
    /\ mainpc \in {"returned", "raised"}
    /\ run < MaxRuns
    /\ \A u \in Units : proc[u] # "running"
    /\ run' = run + 1
    /\ prevAllDone' = AllDone
    /\ fs0' = fs
    /\ stop_requested' = FALSE
    /\ mainpc' = "start"
    /\ existing_outputs' = {}
    /\ videos' = <<>>
    /\ st' = <<>>
    /\ result' = <<>>
    /\ proc' = <<>>
    /\ src_size' = <<>>
    /\ failure' = <<>>
    /\ probed' = {}
    /\ collected' = {}
    /\ completed' = 0
    /\ total_src' = 0
    /\ total_dst' = 0
    /\ UNCHANGED <<fs, workers, task, quality>>

\* The roots the re-run is tried on: one or two of the candidate files.
InitRerun ==
    /\ Init
    /\ Cardinality(DOMAIN fs) <= 2

NextRerun == Next \/ Rerun

SpecRerun == InitRerun /\ [][NextRerun]_vars

(* ------------------------- the 3-file scenario ------------------------- *)

\* A root with three videos, one of which already has its output in
\* output_wm, run with two workers.
ScenarioFiles ==
    { File(Path("root", Name("a", 0, ".mp4")), 2, 3),
      File(Path("root", Name("b", 0, ".mp4")), 4, 3),
      File(Path("root", Name("c", 0, ".mp4")), 8, 3),
      File(Path("out",  Name("a", 1, ".mp4")), 1, 3) }

InitScenario ==
    /\ fs = FsOf(ScenarioFiles)
    /\ fs0 = fs
    /\ workers = 2
    /\ InitRest
    /\ task = NoTask
    /\ quality = NoQuality

SpecScenario == InitScenario /\ [][Next]_vars

(* ------------------------- scheduling (fairness) ----------------------- *)

\* The unit numbers a run can have.
UnitIds == 1..MaxFiles

\* Every thread that can take a step eventually takes it: the main thread
\* and the pool threads are scheduled by the interpreter, and every launched
\* encoder eventually prints another line or closes its pipe. Nothing
\* obliges the user to press Ctrl+C or an encoder to write.
Fairness ==
    /\ WF_vars(MainStart)
    /\ WF_vars(LoopEnd)
    /\ WF_vars(PoolExit)
    /\ \A u \in UnitIds : WF_vars(Take(u))
    /\ \A u \in UnitIds : WF_vars(Start(u))
    /\ \A u \in UnitIds : WF_vars(Launch(u))
    /\ \A u \in UnitIds : WF_vars(ReadLine(u) \/ Exit(u))
    /\ \A u \in UnitIds : WF_vars(Collect(u))

SpecFair == Init /\ [][Next]_vars /\ Fairness

(* --------------------------- the progress task ------------------------- *)

\* main.py:156, the divisor of out_time_ms
Million == 1000000

\* The out_time_ms values an encoder may print: whole seconds from -1 (ffmpeg
\* prints negative times before the first frame) to MaxSecs.
OutTimes == {k * Million : k \in (0 - 1)..MaxSecs}

Min(a, b) == IF a <= b THEN a ELSE b

\* main.py:156-157: min(t / duration * 100, 100) with t = ms / 1_000_000, as
\* the exact fraction num / den, den = 1_000_000 * duration > 0.
Percent(ms, duration) ==
    [num |-> Min(ms * 100, 100 * Million * duration),
     den |-> Million * duration]

\* main.py:155-157 for one out_time_ms line of value ms: the division raises
\* when duration is 0 (caught at main.py:163, the worker returns); otherwise
\* the value is passed to progress.update.
ProgressLine ==
    /\ task.error = ""
    /\ Len(task.reports) < MaxLines
    /\ \E ms \in OutTimes :
         IF task.duration = 0
         THEN task' = [task EXCEPT !.error = "zerodiv"]
         ELSE task' = [task EXCEPT
                          !.reports = Append(@, Percent(ms, task.duration))]
    /\ UNCHANGED <<fs, stop_requested, mainpc, workers, existing_outputs,
                   videos, st, result, proc, src_size, failure, probed,
                   collected, completed, total_src, total_dst, fs0, run,
                   prevAllDone, quality>>

\* main.py:122, 125: the task of a unit of any duration from 0 to MaxDur.
InitProgress ==
    /\ fs = FsOf({})
    /\ fs0 = fs
    /\ workers = 1
    /\ InitRest
    /\ task \in {[duration |-> d, reports |-> <<>>, error |-> ""] :
                    d \in 0..MaxDur}
    /\ quality = NoQuality

SpecProgress == InitProgress /\ [][ProgressLine]_vars

(* --------------------------- the choice of crf ------------------------- *)

\* main.py:81-86
auto_crf(w, h, nvenc) ==
    IF w >= 3840 \/ h >= 2160 THEN (IF nvenc THEN 19 ELSE 24)
    ELSE IF w >= 1920 \/ h >= 1080 THEN (IF nvenc THEN 21 ELSE 26)
    ELSE (IF nvenc THEN 23 ELSE 28)

\* What the user may type at the CRF prompt: nothing, or an integer.
CrfInputs == {"", "0", "18", "28"}

\* int() of a typed integer.
IntOf(str) == CASE str = "0" -> 0 [] str = "18" -> 18 [] OTHER -> 28

\* main.py:245: None (the empty tuple here) for an empty input.
ParseCrfInput(str) == IF str = "" THEN <<>> ELSE <<IntOf(str)>>

\* The override tested for truth instead of for None.
ChosenCrfTruthy(crf_override, w, h, nvenc) ==
    IF crf_override # <<>> /\ crf_override[1] # 0
    THEN crf_override[1]
    ELSE auto_crf(w, h, nvenc)

\* main.py:121
ChosenCrf(crf_override, w, h, nvenc) ==
    IF crf_override # <<>> THEN crf_override[1] ELSE auto_crf(w, h, nvenc)

\* main.py:245, 120-121, 127-130: the crf passed to the encoder as -cq or -crf.
ChooseCrf ==
    /\ quality.stage = "asked"
    /\ quality' = [quality EXCEPT
                      !.stage = "chosen",
                      !.crf = ChosenCrf(ParseCrfInput(quality.crf_input),
                                        quality.w, quality.h, quality.nvenc)]
    /\ UNCHANGED <<fs, stop_requested, mainpc, workers, existing_outputs,
                   videos, st, result, proc, src_size, failure, probed,
                   collected, completed, total_src, total_dst, fs0, run,
                   prevAllDone, task>>

\* The widths and heights ffprobe may report, around the thresholds.
Widths == {640, 1280, 1919, 1920, 3839, 3840, 4096}

Heights == {480, 720, 1079, 1080, 2159, 2160}

InitCrf ==
    /\ fs = FsOf({})
    /\ fs0 = fs
    /\ workers = 1
    /\ InitRest
    /\ task = NoTask
    /\ quality \in {[w |-> w, h |-> h, nvenc |-> n, crf_input |-> i,
                     stage |-> "asked", crf |-> 0] :
                       w \in Widths, h \in Heights, n \in BOOLEAN,
                       i \in CrfInputs}

SpecCrf == InitCrf /\ [][ChooseCrf]_vars

(* ------------------------------- claims -------------------------------- *)

DoneUnits == {u \in Units : result[u].kind = "done"}

RECURSIVE SumOf(_, _)
SumOf(S, field) ==
    IF S = {} THEN 0
    ELSE LET u == CHOOSE x \in S : TRUE
         IN  result[u][field] + SumOf(S \ {u}, field)

\* The output of unit u was already in output_wm when main() was invoked.
PreExisting(u) == OutPath(videos[u]) \in DOMAIN fs0

\* C1 (as claimed): no per-unit failure escapes compress_one as an exception:
\* no future holds a raised exception and main() is never left by one.
C1_NoExceptionEscapes ==
    /\ \A u \in Units : result[u].kind # "raised"
    /\ mainpc \notin {"raising", "raised"}

\* C2: once stop_requested is set, a unit that is still queued is never
\* started: the step that takes it off the queue finishes it with None,
\* without an ffprobe call and without an encoder.
C2_NoStartAfterCancel ==
    [][\A u \in Units :
          (stop_requested /\ st[u] \in {"queued", "taken"})
              => \/ st'[u] \in {"queued", "taken"}
                 \/ /\ st'[u] = "finished"
                    /\ result'[u] = None
                    /\ u \notin probed'
                    /\ proc'[u] = "none"]_vars

\* C2 witness: the flag is set and a unit whose output did not exist was
\* finished with None without ffprobe or encoder, while an earlier unit had
\* got as far as launching its encoder.
C2_Witness ==
    \E u, v \in Units :
        /\ stop_requested
        /\ proc[v] # "none"
        /\ ~SkipCheck(videos[u])
        /\ st[u] = "finished"
        /\ result[u] = None
        /\ u \notin probed
        /\ proc[u] = "none"

\* C3 (as claimed): when main() returns, cancelled or not, total_src and
\* total_dst are the sums over exactly the units that returned "done".
C3_TotalsAtReturn ==
    mainpc = "returned"
        => /\ total_src = SumOf(DoneUnits, "src")
           /\ total_dst = SumOf(DoneUnits, "dst")

\* C4 (as claimed): when main() returns, every unit's outcome was consumed
\* once: the completed count equals the number of units.
C4_CompletedAtReturn ==
    mainpc = "returned" => (completed = Len(videos) /\ collected = Units)

\* C5: without cancellation, whatever the pool size and the order in which
\* the futures complete, the final totals are determined by the units'
\* outcomes alone: the count is the number of units and the byte totals are
\* the sums over the "done" outcomes.
C5_TotalsOrderFree ==
    (mainpc = "returned" /\ ~stop_requested)
        => /\ completed = Len(videos)
           /\ total_src = SumOf(DoneUnits, "src")
           /\ total_dst = SumOf(DoneUnits, "dst")

\* C5 witness: an uncancelled run of two workers returned with two "done"
\* outcomes of different sizes and one None outcome.
C5_Witness ==
    /\ mainpc = "returned"
    /\ ~stop_requested
    /\ workers = 2
    /\ \E u, v, w \in Units :
          /\ result[u].kind = "done"
          /\ result[v].kind = "done"
          /\ result[u].src # result[v].src
          /\ result[w].kind = "none"
    /\ total_src > 0

\* C6 (as claimed): a unit whose output pre-exists always yields Skipped and
\* causes no ffprobe call and no encoder launch.
C6_AlwaysSkipped ==
    \A u \in Units :
        (PreExisting(u) /\ st[u] = "finished")
            => /\ result[u] = Skipped
               /\ u \notin probed
               /\ proc[u] = "none"

\* C6 (amended): a unit whose output pre-exists never causes an ffprobe call
\* or an encoder launch; it yields Skipped, or None when the cancellation flag
\* was already set when its worker began.
C6_SkippedOrCancelled ==
    \A u \in Units :
        PreExisting(u)
            => /\ st[u] \in {"queued", "taken", "finished"}
               /\ u \notin probed
               /\ proc[u] = "none"
               /\ st[u] = "finished"
                    => \/ result[u] = Skipped
                       \/ result[u] = None /\ stop_requested

\* C6 witness: of two units whose output pre-exists, one was skipped and the
\* other, begun after the flag was set, returned None.
C6_Witness ==
    \E u, v \in Units :
        /\ PreExisting(u)
        /\ PreExisting(v)
        /\ result[u] = Skipped
        /\ result[v] = None

\* C7 (as claimed): two distinct scanned sources never have the same output
\* path.
C7_DistinctOutputs ==
    \A u, v \in Units : u # v => OutPath(videos[u]) # OutPath(videos[v])

\* C8 (as claimed): in the scenario (three videos in the root, the output of
\* one of them in output_wm, two workers, no cancellation and no failure) the
\* run ends with 1 Skipped outcome, 2 encoder launches and a completed count
\* of 3 out of 3 units.
C8_Scenario ==
    (mainpc = "returned" /\ ~stop_requested)
        => /\ Len(videos) = 3
           /\ completed = 3
           /\ Cardinality({u \in Units : result[u] = Skipped}) = 1
           /\ Cardinality({u \in Units : proc[u] # "none"}) = 2

\* C9 (as claimed): in a run that follows a run in which every unit returned
\* "done", no encoder is launched.
C9_RerunLaunchesNothing ==
    (run >= 2 /\ prevAllDone) => \A u \in Units : proc[u] = "none"

\* C10 (as claimed): a unit whose encoder exited with a nonzero status, or
\* whose output file is missing after the exit, never yields "done".
C10_FailedNotDone ==
    \A u \in Units :
        result[u].kind = "done"
            => proc[u] = "exit0" /\ Exists(OutPath(videos[u]))

\* C11: at every moment at most `workers` units are held by pool threads
\* (taken off the queue and not yet finished); with one worker no two units
\* overlap.
C11_AtMostPoolSize ==
    /\ Cardinality(Running) <= workers
    /\ workers = 1 => \A u, v \in Running : u = v

\* C11 witness: two workers are both busy, each with its encoder running,
\* while a third unit waits in the queue.
C11_Witness ==
    /\ workers = 2
    /\ Cardinality({u \in Units : st[u] = "reading"}) = 2
    /\ \E u \in Units : st[u] = "queued"

\* C12: a worker that reads a line while the flag is set terminates its
\* encoder and returns None; a terminated unit is never "done", and the
\* totals hold the bytes of collected "done" units only.
C12_CancelledOnLine ==
    /\ [][\A u \in Units :
             (stop_requested /\ ReadLine(u))
                 => (proc'[u] = "terminated" /\ result'[u] = None)]_vars
    /\ [](/\ \A u \in Units : proc[u] = "terminated" => result[u] = None
          /\ total_src = SumOf(collected \cap DoneUnits, "src")
          /\ total_dst = SumOf(collected \cap DoneUnits, "dst"))

\* C12 witness: main() has returned; a unit was terminated on a line read
\* after the flag was set and returned None, and the output file its encoder
\* wrote in this run exists.
C12_Witness ==
    \E u \in Units :
        /\ mainpc = "returned"
        /\ proc[u] = "terminated"
        /\ result[u] = None
        /\ Exists(OutPath(videos[u]))
        /\ OutPath(videos[u]) \notin DOMAIN fs0

\* C13 (as claimed): once cancellation is requested, main() eventually
\* returns, and then every submitted unit's worker has finished.
C13_EventuallyDrained ==
    stop_requested ~> (mainpc = "returned" /\ AllFinished)

\* C13 (what does hold): once cancellation is requested, main() is
\* eventually left, by return or by the exception of a worker that was
\* already propagating, and then every submitted unit's worker has finished.
C13_EventuallyLeftDrained ==
    stop_requested ~> (mainpc \in {"returned", "raised"} /\ AllFinished)

\* C14 (as claimed): a unit of duration 0 never fails by a division by zero,
\* and returns "done" when its encoder exited normally and the output exists.
C14_ZeroDurationCompletes ==
    \A u \in Units :
        fs[videos[u]].dur = 0
            => /\ failure[u] # "zerodiv"
               /\ (st[u] = "finished" /\ proc[u] = "exit0"
                      /\ Exists(OutPath(videos[u])))
                    => result[u].kind = "done"

\* C15 (as claimed): for a duration > 0 and every sequence of out_time_ms
\* lines, every value reported lies between 0 and 100 and the reported values
\* never decrease.
C15_FractionBoundedMonotone ==
    task.duration > 0
        => /\ \A i \in 1..Len(task.reports) :
                 /\ 0 <= task.reports[i].num
                 /\ task.reports[i].num <= 100 * task.reports[i].den
           /\ \A i, j \in 1..Len(task.reports) :
                 i < j => task.reports[i].num <= task.reports[j].num

\* C16: the crf used is the typed override verbatim when there is one, 0
\* included; otherwise 19/24 (hardware/software) for w >= 3840 or h >= 2160,
\* else 21/26 for w >= 1920 or h >= 1080, else 23/28; in particular
\* (3840,2160,true)=19, (3840,2160,false)=24, (1920,1080,true)=21 and
\* (1280,720,false)=28.
C16_CrfChoice ==
    quality.stage = "chosen"
        => LET q == quality
               hw == IF q.nvenc THEN 0 ELSE 5
           IN  /\ q.crf_input = "0" => q.crf = 0
               /\ q.crf_input = "18" => q.crf = 18
               /\ q.crf_input = "28" => q.crf = 28
               /\ (q.crf_input = "" /\ (q.w >= 3840 \/ q.h >= 2160))
                    => q.crf = 19 + hw
               /\ (q.crf_input = "" /\ q.w < 3840 /\ q.h < 2160
                      /\ (q.w >= 1920 \/ q.h >= 1080))
                    => q.crf = 21 + hw
               /\ (q.crf_input = "" /\ q.w < 1920 /\ q.h < 1080)
                    => q.crf = 23 + hw
               /\ (q.crf_input = "" /\ q.w = 3840 /\ q.h = 2160 /\ q.nvenc)
                    => q.crf = 19
               /\ (q.crf_input = "" /\ q.w = 3840 /\ q.h = 2160 /\ ~q.nvenc)
                    => q.crf = 24
               /\ (q.crf_input = "" /\ q.w = 1920 /\ q.h = 1080 /\ q.nvenc)
                    => q.crf = 21
               /\ (q.crf_input = "" /\ q.w = 1280 /\ q.h = 720 /\ ~q.nvenc)
                    => q.crf = 28

\* C16 witness: an override of 0 was typed for a 4K video and 0 was used.
C16_Witness ==
    /\ quality.stage = "chosen"
    /\ quality.crf_input = "0"
    /\ quality.w = 3840
    /\ quality.crf = 0

\* C17 (as claimed): for units i before j in scan order, compress_one of j
\* begins only after compress_one of i has begun.
C17_StartInScanOrder ==
    \A i, j \in Units :
        (i < j /\ st[j] \notin {"queued", "taken"})
            => st[i] \notin {"queued", "taken"}

\* C17 (amended): units are taken off the pool's queue in scan order, for
\* every pool size, and with one worker compress_one begins in scan order.
C17_TakenInScanOrder ==
    /\ \A i, j \in Units : (i < j /\ st[j] # "queued") => st[i] # "queued"
    /\ workers = 1 => C17_StartInScanOrder

\* C17 witness: with two workers, unit i was taken first but has not yet
\* begun compress_one, the later unit j has, and a third unit is queued.
C17_Witness ==
    \E i, j, k \in Units :
        /\ i < j /\ j < k
        /\ st[i] = "taken"
        /\ st[j] = "probed"
        /\ st[k] = "queued"

\* C18 (as claimed): an encoder is launched only while stop_requested is
\* false.
C18_NoLaunchWhileStopped ==
    [][\A u \in Units :
          (proc[u] = "none" /\ proc'[u] = "running") => ~stop_requested]_vars

\* C18 (amended): an encoder is launched only by a worker that passed the
\* entry check of compress_one, and the entry check is passed only while
\* stop_requested is false.
C18_LaunchOnlyPastEntryCheck ==
    /\ [][\A u \in Units :
             (proc[u] = "none" /\ proc'[u] = "running") => st[u] = "probed"]_vars
    /\ [][\A u \in Units :
             (st[u] \in {"queued", "taken"} /\ st'[u] = "probed")
                 => ~stop_requested]_vars

\* C18 witness: the flag is set while a worker is past the entry check and
\* has not yet launched its encoder.
C18_Witness ==
    \E u \in Units : stop_requested /\ st[u] = "probed" /\ proc[u] = "none"

\* C19 (as claimed): a worker that has returned has left no encoder running,
\* so the encoders alive never outnumber the pool.
C19_NoEncoderLeftRunning ==
    /\ \A u \in Units : st[u] = "finished" => proc[u] # "running"
    /\ Cardinality({u \in Units : proc[u] = "running"}) <= workers

====
